---- MODULE Spec2Model ----
(***************************************************************************)
(* Model of the signed integer layer of saferith (src/int.go).             *)
(*                                                                         *)
(* An Int is a sign Choice and an embedded magnitude Nat.  The model keeps *)
(* a small store of Nat objects: one embedded in each Int variable, and    *)
(* one for the Nat most recently allocated by new(Nat) in Abs or Mod and   *)
(* returned to the caller.  The unsigned engine (Nat, Modulus, Choice) is  *)
(* not part of src/int.go; its operations are modelled from their contract *)
(* as functions on a magnitude value and an announced bit length.          *)
(***************************************************************************)
EXTENDS Integers, Sequences, FiniteSets

(***************************************************************************)
(* Bounds of the model.                                                    *)
(***************************************************************************)
\* SetUint64 and the caller's mutation of a returned Nat draw from 0..MaxU.
MaxU == 3
\* Moduli are drawn from 1..MaxMod.
MaxMod == 8
\* Resize and Mul draw a non-negative cap from 0..MaxCap.
MaxCap == 2
\* SetBytes draws byte strings of length 0..MaxBytes.
MaxBytes == 1
\* Mul with cap < 0 is taken only while the summed announced size is at
\* most MaxAnnounced.
MaxAnnounced == 4

\* The byte values SetBytes draws from.
ByteVals == {0, 4}

\* The width of the argument of SetUint64.
Uint64Bits == 64

(***************************************************************************)
(* Identities of the objects.                                              *)
(***************************************************************************)
\* The Int variables of the caller.
IntIds == {"i1", "i2"}
\* The Nat allocated by new(Nat) in Abs and Mod.
NewNat == "new"
\* No Nat is held / an argument a call does not take.
Nil == "nil"
\* The Nat objects: the magnitude embedded in each Int, and the allocated one.
NatIds == IntIds \cup {NewNat}

VARIABLES
    sign,   \* sign[i]: the sign field of Int i
    nats,   \* nats[n]: Nat object n, [val, len]; nats[i] is the abs field of Int i
    last,   \* the call that has just returned: its name, arguments and results
    before  \* the signs and the Nat objects as that call found them

vars == <<sign, nats, last, before>>

(***************************************************************************)
(* Choice: a machine word holding 0 or 1, combined with ^, | and &.        *)
(***************************************************************************)
RECURSIVE WordXor(_, _)
WordXor(a, b) ==
    IF a = 0 /\ b = 0 THEN 0
    ELSE ((a + b) % 2) + 2 * WordXor(a \div 2, b \div 2)

RECURSIVE WordOr(_, _)
WordOr(a, b) ==
    IF a = 0 /\ b = 0 THEN 0
    ELSE (IF a % 2 = 1 \/ b % 2 = 1 THEN 1 ELSE 0) + 2 * WordOr(a \div 2, b \div 2)

RECURSIVE WordAnd(_, _)
WordAnd(a, b) ==
    IF a = 0 \/ b = 0 THEN 0
    ELSE (IF a % 2 = 1 /\ b % 2 = 1 THEN 1 ELSE 0) + 2 * WordAnd(a \div 2, b \div 2)

Bool2Choice(b) == IF b THEN 1 ELSE 0

(***************************************************************************)
(* The unsigned engine, from its contract: a Nat is [val, len] with        *)
(* val < 2^len, len the announced size in bits.                            *)
(***************************************************************************)
ZeroNat == [val |-> 0, len |-> 0]

\* v truncated to its low n bits.
TruncBits(v, n) == v % (2 ^ n)

\* The number of bits of m.
RECURSIVE BitLen(_)
BitLen(m) == IF m = 0 THEN 0 ELSE 1 + BitLen(m \div 2)

\* The big-endian value of a byte string.
RECURSIVE BytesValue(_)
BytesValue(data) ==
    IF Len(data) = 0 THEN 0
    ELSE 256 * BytesValue(SubSeq(data, 1, Len(data) - 1)) + data[Len(data)]

NatSetBytes(data) == [val |-> BytesValue(data), len |-> 8 * Len(data)]
NatSetUint64(u) == [val |-> u, len |-> Uint64Bits]
NatSetNat(x) == [val |-> x.val, len |-> x.len]
NatResize(z, cap) == [val |-> TruncBits(z.val, cap), len |-> cap]
NatEqZero(z) == Bool2Choice(z.val = 0)
NatEq(z, x) == Bool2Choice(z.val = x.val)
NatCmp(z, x) ==
    [gt |-> Bool2Choice(z.val > x.val),
     eq |-> Bool2Choice(z.val = x.val),
     lt |-> Bool2Choice(z.val < x.val)]
NatCmpMod(z, m) ==
    [gt |-> Bool2Choice(z.val > m),
     eq |-> Bool2Choice(z.val = m),
     lt |-> Bool2Choice(z.val < m)]
MulCap(x, y, cap) == IF cap < 0 THEN x.len + y.len ELSE cap
NatMul(x, y, cap) ==
    [val |-> TruncBits(x.val * y.val, MulCap(x, y, cap)), len |-> MulCap(x, y, cap)]
NatMod(x, m) == [val |-> x.val % m, len |-> BitLen(m)]
NatModNeg(x, m) == [val |-> (m - (x.val % m)) % m, len |-> BitLen(m)]
NatCondAssign(z, yes, x) ==
    IF yes = 1 THEN [val |-> x.val, len |-> IF x.len > z.len THEN x.len ELSE z.len]
    ELSE [val |-> z.val, len |-> IF x.len > z.len THEN x.len ELSE z.len]

(***************************************************************************)
(* The Int layer: what each method of src/int.go computes.  An Int value   *)
(* is the record [sign, abs] read from the store.                          *)
(***************************************************************************)
IntAt(i) == [sign |-> sign[i], abs |-> nats[i]]

\* Eq without the zero test: the two zeros compare different.
EqNoZero(z, x) ==
    WordAnd(WordXor(WordXor(1, z.sign), x.sign), NatEq(z.abs, x.abs))

\* Eq: zero | (1 ^ z.sign ^ x.sign), then & with the magnitudes' equality.
Eq(z, x) ==
    LET zero == NatEqZero(z.abs)
        sameSign == WordOr(zero, WordXor(WordXor(1, z.sign), x.sign))
    IN WordAnd(sameSign, NatEq(z.abs, x.abs))

\* Abs handing out the Int's own magnitude instead of a copy.
AbsInPlace(z) == z

\* Abs: the Nat object that receives the copy of the magnitude of Int z.
AbsTarget(z) == NewNat

\* Neg keeping the sign of x.
NegSignKept(x) == x.sign

\* Neg adding 1 to the sign instead of flipping it.
NegSignAdded(x) == 1 + x.sign

\* Neg: the sign and the magnitude stored in the destination.
NegSign(x) == WordXor(1, x.sign)
Neg(x) == [sign |-> NegSign(x), abs |-> NatSetNat(x.abs)]

\* Mul combining the signs with | instead of ^.
MulSignOr(x, y) == WordOr(x.sign, y.sign)

\* Mul: the sign and the magnitude stored in the destination.
MulSign(x, y) == WordXor(x.sign, y.sign)
Mul(x, y, cap) == [sign |-> MulSign(x, y), abs |-> NatMul(x.abs, y.abs, cap)]

\* Mod without the conditional assignment: the sign is ignored.
ModUnsigned(z, m) == NatMod(z.abs, m)

\* Mod: the value of the Nat returned.
Mod(z, m) ==
    LET out0 == NatMod(z.abs, m)
        negated == NatModNeg(out0, m)
    IN NatCondAssign(out0, z.sign, negated)

\* SetModSymmetric comparing with < instead of <=: a tie keeps the positive
\* representative.
SetModSymmetricStrict(x, m) ==
    LET abs0 == NatMod(x, m)
        negated == NatModNeg(abs0, m)
        lt == NatCmp(negated, abs0).lt
    IN [sign |-> lt, abs |-> NatCondAssign(abs0, lt, negated)]

\* SetModSymmetric without the conditional assignment: the reduced value is
\* kept as the magnitude.
SetModSymmetricNoAssign(x, m) ==
    LET abs0 == NatMod(x, m)
        negated == NatModNeg(abs0, m)
        gt == NatCmp(negated, abs0).gt
        negatedLeq == WordXor(1, gt)
    IN [sign |-> negatedLeq, abs |-> abs0]

\* SetModSymmetric: the sign and the magnitude stored in the destination.
SetModSymmetric(x, m) ==
    LET abs0 == NatMod(x, m)
        negated == NatModNeg(abs0, m)
        gt == NatCmp(negated, abs0).gt
        negatedLeq == WordXor(1, gt)
    IN [sign |-> negatedLeq, abs |-> NatCondAssign(abs0, negatedLeq, negated)]

\* CheckInRange: absOk & signOk.
CheckInRange(z, m) ==
    LET absOk == NatCmpMod(z.abs, m).lt
        negated == NatModNeg(z.abs, m)
        lt == NatCmp(negated, z.abs).lt
        signOk == WordXor(1, lt)
    IN WordAnd(absOk, signOk)

(***************************************************************************)
(* The inputs the calls draw from.                                         *)
(***************************************************************************)
ByteStrings == UNION {[1..n -> ByteVals] : n \in 0..MaxBytes}
Uint64s == 0..MaxU
Moduli == 1..MaxMod
Caps == 0..MaxCap
MulCaps == {-1} \cup Caps

\* The record of a call: the receiver z, the operands x and y, the modulus m,
\* the cap, the uint64 u, the Choice returned (res) and the Nat returned (ret).
NoCall ==
    [op |-> "none", z |-> Nil, x |-> Nil, y |-> Nil, m |-> 0, cap |-> 0, u |-> 0,
     res |-> 0, ret |-> Nil]
Call(op, z) == [NoCall EXCEPT !.op = op, !.z = z]
Snapshot == [sign |-> sign, nats |-> nats]

\* The store once the caller has let go of the Nat that Abs or Mod returned.
Released(store) == [store EXCEPT ![NewNat] = ZeroNat]

(***************************************************************************)
(* The calls.  A call runs as one step and leaves its record in last and   *)
(* the store it found in before.  The caller then goes on (Return), or,    *)
(* when the call returned a Nat, first uses that Nat: it overwrites it     *)
(* (MutateOut) or passes it to SetModSymmetric.                            *)
(***************************************************************************)
Init ==
    /\ sign = [i \in IntIds |-> 0]
    /\ nats = [n \in NatIds |-> ZeroNat]
    /\ last = NoCall
    /\ before = Snapshot

Idle == last.op = "none"
Held == last.ret # Nil

CallSetBytes(z, data) ==
    /\ Idle
    /\ sign' = [sign EXCEPT ![z] = 0]
    /\ nats' = [nats EXCEPT ![z] = NatSetBytes(data)]
    /\ last' = Call("SetBytes", z)
    /\ before' = Snapshot

CallSetUint64(z, u) ==
    /\ Idle
    /\ sign' = [sign EXCEPT ![z] = 0]
    /\ nats' = [nats EXCEPT ![z] = NatSetUint64(u)]
    /\ last' = [Call("SetUint64", z) EXCEPT !.u = u]
    /\ before' = Snapshot

CallResize(z, cap) ==
    /\ Idle
    /\ nats' = [nats EXCEPT ![z] = NatResize(nats[z], cap)]
    /\ last' = [Call("Resize", z) EXCEPT !.cap = cap]
    /\ before' = Snapshot
    /\ UNCHANGED sign

CallEq(z, x) ==
    /\ Idle
    /\ last' = [Call("Eq", z) EXCEPT !.x = x, !.res = Eq(IntAt(z), IntAt(x))]
    /\ before' = Snapshot
    /\ UNCHANGED <<sign, nats>>

CallAbs(z) ==
    /\ Idle
    /\ nats' = [nats EXCEPT ![AbsTarget(z)] = NatSetNat(nats[z])]
    /\ last' = [Call("Abs", z) EXCEPT !.ret = AbsTarget(z)]
    /\ before' = Snapshot
    /\ UNCHANGED sign

CallNeg(z, x) ==
    /\ Idle
    /\ sign' = [sign EXCEPT ![z] = Neg(IntAt(x)).sign]
    /\ nats' = [nats EXCEPT ![z] = Neg(IntAt(x)).abs]
    /\ last' = [Call("Neg", z) EXCEPT !.x = x]
    /\ before' = Snapshot

CallMul(z, x, y, cap) ==
    /\ Idle
    /\ cap < 0 => nats[x].len + nats[y].len <= MaxAnnounced
    /\ sign' = [sign EXCEPT ![z] = Mul(IntAt(x), IntAt(y), cap).sign]
    /\ nats' = [nats EXCEPT ![z] = Mul(IntAt(x), IntAt(y), cap).abs]
    /\ last' = [Call("Mul", z) EXCEPT !.x = x, !.y = y, !.cap = cap]
    /\ before' = Snapshot

CallMod(z, m) ==
    /\ Idle
    /\ nats' = [nats EXCEPT ![NewNat] = Mod(IntAt(z), m)]
    /\ last' = [Call("Mod", z) EXCEPT !.m = m, !.ret = NewNat]
    /\ before' = Snapshot
    /\ UNCHANGED sign

\* x is the magnitude of an Int, or the Nat that the call before returned.
CallSetModSymmetric(z, x, m) ==
    /\ \/ Idle /\ x \in IntIds
       \/ Held /\ x = last.ret
    /\ sign' = [sign EXCEPT ![z] = SetModSymmetric(nats[x], m).sign]
    /\ nats' = Released([nats EXCEPT ![z] = SetModSymmetric(nats[x], m).abs])
    /\ last' = [Call("SetModSymmetric", z) EXCEPT !.x = x, !.m = m]
    /\ before' = Snapshot

CallCheckInRange(z, m) ==
    /\ Idle
    /\ last' = [Call("CheckInRange", z) EXCEPT !.m = m, !.res = CheckInRange(IntAt(z), m)]
    /\ before' = Snapshot
    /\ UNCHANGED <<sign, nats>>

\* The caller overwrites the Nat that Abs or Mod on Int last.z returned.
MutateOut(u) ==
    /\ Held
    /\ nats' = [nats EXCEPT ![last.ret] = NatSetUint64(u)]
    /\ last' = [Call("MutateOut", last.z) EXCEPT !.x = last.ret, !.u = u]
    /\ before' = Snapshot
    /\ UNCHANGED sign

\* The caller goes on, and lets go of a Nat that was returned to it.
Return ==
    /\ ~Idle
    /\ nats' = Released(nats)
    /\ last' = NoCall
    /\ before' = [sign |-> sign, nats |-> Released(nats)]
    /\ UNCHANGED sign

Next ==
    \/ \E z \in IntIds, data \in ByteStrings : CallSetBytes(z, data)
    \/ \E z \in IntIds, u \in Uint64s : CallSetUint64(z, u)
    \/ \E z \in IntIds, cap \in Caps : CallResize(z, cap)
    \/ \E z \in IntIds, x \in IntIds : CallEq(z, x)
    \/ \E z \in IntIds : CallAbs(z)
    \/ \E z \in IntIds, x \in IntIds : CallNeg(z, x)
    \/ \E z \in IntIds, x \in IntIds, y \in IntIds, cap \in MulCaps : CallMul(z, x, y, cap)
    \/ \E z \in IntIds, m \in Moduli : CallMod(z, m)
    \/ \E z \in IntIds, x \in NatIds, m \in Moduli : CallSetModSymmetric(z, x, m)
    \/ \E z \in IntIds, m \in Moduli : CallCheckInRange(z, m)
    \/ \E u \in Uint64s : MutateOut(u)
    \/ Return

Spec == Init /\ [][Next]_vars

(***************************************************************************)
(* The mathematics the claims are stated in.                               *)
(***************************************************************************)
\* The value (-1)^s * n.val of an Int with sign s and magnitude n.
IntVal(s, n) == IF s % 2 = 1 THEN 0 - n.val ELSE n.val
Congruent(a, b, m) == (a - b) % m = 0
Smaller(a, b) == IF a <= b THEN a ELSE b
QueryOps == {"Eq", "Abs", "Mod", "CheckInRange"}
\* Int i as the call that has just returned found it, and as it is now.
Found(i) == [sign |-> before.sign[i], abs |-> before.nats[i]]
FoundVal(i) == IntVal(before.sign[i], before.nats[i])
NowVal(i) == IntVal(sign[i], nats[i])

(***************************************************************************)
(* The claims.                                                             *)
(***************************************************************************)

\* C1: whenever CheckInRange(m) returns 1 for an Int (of either sign), some
\* Nat x exists for which SetModSymmetric(x, m) is Eq to that Int.  The
\* result of SetModSymmetric depends on x modulo m only, so x ranges over
\* 0..m-1.
C1_InRangeOnlyIfSymmetric ==
    (last.op = "CheckInRange" /\ last.res = 1) =>
        \E x \in 0..(last.m - 1) :
            Eq(SetModSymmetric(NatSetUint64(x), last.m), Found(last.z)) = 1

\* C2: SetModSymmetric(x, m) stores a value v congruent to x modulo m with
\* -m <= 2v < m, the magnitude being the smaller of x mod m and its negation
\* modulo m; at the tie 2 * (x mod m) = m the sign is negative and the
\* magnitude m/2.
C2_SymmetricRepresentative ==
    last.op = "SetModSymmetric" =>
        LET m == last.m
            xval == before.nats[last.x].val
            r == xval % m
            a == nats[last.z].val
            v == NowVal(last.z)
        IN /\ sign[last.z] \in {0, 1}
           /\ Congruent(v, xval, m)
           /\ 0 - m <= 2 * v
           /\ 2 * v < m
           /\ a = Smaller(r, (m - r) % m)
           /\ (2 * r = m => sign[last.z] = 1 /\ a = r)

\* The tie of an even modulus was reduced: 4 modulo 8 gave -4.
C2_Witness ==
    /\ last.op = "SetModSymmetric"
    /\ last.m = 8
    /\ before.nats[last.x].val = 4
    /\ sign[last.z] = 1
    /\ nats[last.z].val = 4

\* C3: the Nat returned by z.Mod(m) lies in 0..m-1 and is congruent modulo m
\* to the value of z.
C3_ModCanonical ==
    last.op = "Mod" =>
        /\ last.ret # Nil
        /\ nats[last.ret].val >= 0
        /\ nats[last.ret].val <= last.m - 1
        /\ Congruent(nats[last.ret].val, FoundVal(last.z), last.m)

\* A negative Int whose non-zero magnitude is a multiple of m was reduced
\* to 0.
C3_Witness ==
    /\ last.op = "Mod"
    /\ last.m > 1
    /\ before.sign[last.z] = 1
    /\ before.nats[last.z].val = last.m
    /\ nats[last.ret].val = 0

\* C4: z.Eq(x) returns 1 when z and x have the same value and 0 otherwise.
C4_EqIsValueEquality ==
    last.op = "Eq" => last.res = Bool2Choice(FoundVal(last.z) = FoundVal(last.x))

\* Eq returned 1 for +0 and -0 of different announced sizes.
C4_Witness ==
    /\ last.op = "Eq"
    /\ last.res = 1
    /\ last.z # last.x
    /\ before.sign[last.z] # before.sign[last.x]
    /\ before.nats[last.z].val = 0
    /\ before.nats[last.x].val = 0
    /\ before.nats[last.z].len # before.nats[last.x].len

\* C5: the Int that SetModSymmetric(x, m) stores passes CheckInRange(m).
C5_SymmetricPassesCheck ==
    last.op = "SetModSymmetric" => CheckInRange(IntAt(last.z), last.m) = 1

\* 4 modulo 7 was reduced to -3, which passes the check.
C5_Witness ==
    /\ last.op = "SetModSymmetric"
    /\ last.m = 7
    /\ before.nats[last.x].val = 4
    /\ sign[last.z] = 1
    /\ nats[last.z].val = 3
    /\ CheckInRange(IntAt(last.z), last.m) = 1

\* C6: Mul(x, y, cap) stores the sign x.sign XOR y.sign; with cap < 0 the
\* announced size is the sum of those of x and y and the magnitude is the
\* exact product, so the value is the product of the values; with cap >= 0
\* the magnitude is the product truncated to cap bits.
C6_MulSignAndMagnitude ==
    last.op = "Mul" =>
        LET x == Found(last.x)
            y == Found(last.y)
        IN /\ sign[last.z] = (x.sign + y.sign) % 2
           /\ last.cap < 0 =>
                /\ nats[last.z].len = x.abs.len + y.abs.len
                /\ nats[last.z].val = x.abs.val * y.abs.val
                /\ NowVal(last.z) = FoundVal(last.x) * FoundVal(last.y)
           /\ last.cap >= 0 =>
                nats[last.z].val = (x.abs.val * y.abs.val) % (2 ^ last.cap)

\* Two negative Ints were multiplied into the first of them without
\* truncation: -3 * -3 = +9 on 2 + 2 bits.
C6_Witness ==
    /\ last.op = "Mul"
    /\ last.cap < 0
    /\ last.x = last.z
    /\ last.y # last.z
    /\ Found(last.x) = [sign |-> 1, abs |-> [val |-> 3, len |-> 2]]
    /\ Found(last.y) = [sign |-> 1, abs |-> [val |-> 3, len |-> 2]]
    /\ sign[last.z] = 0
    /\ nats[last.z] = [val |-> 9, len |-> 4]

\* C7: Neg(x) stores the flipped sign of x with the magnitude and the
\* announced size of x; the result is Eq to x exactly when the magnitude is
\* zero; and negating the result again gives an Int that is Eq to x.
C7_NegFlipsAndInvolutes ==
    last.op = "Neg" =>
        LET x == Found(last.x)
            z == IntAt(last.z)
        IN /\ z.sign = 1 - x.sign
           /\ z.abs = x.abs
           /\ (Eq(z, x) = 1) <=> (x.abs.val = 0)
           /\ Eq(Neg(z), x) = 1

\* +0 was negated in place and is now -0.
C7_Witness ==
    /\ last.op = "Neg"
    /\ last.x = last.z
    /\ Found(last.x).sign = 0
    /\ Found(last.x).abs.val = 0
    /\ sign[last.z] = 1
    /\ nats[last.z] = Found(last.x).abs

\* C9: Eq, Abs, Mod and CheckInRange leave the sign, the magnitude and the
\* announced size of every Int as they were, Abs and Mod return a Nat that
\* is no Int's magnitude, and overwriting the returned Nat changes no Int.
C9_QueriesLeaveIntsAlone ==
    /\ (last.op \in QueryOps \/ last.op = "MutateOut") =>
            /\ sign = before.sign
            /\ \A i \in IntIds : nats[i] = before.nats[i]
    /\ last.op \in {"Abs", "Mod"} => last.ret \notin IntIds

\* The Nat returned for a non-zero Int held a copy of its magnitude and was
\* overwritten with another value: the Int is as it was.
C9_Witness ==
    /\ last.op = "MutateOut"
    /\ before.nats[last.z].val # 0
    /\ before.nats[last.x] = before.nats[last.z]
    /\ nats[last.x].val = last.u
    /\ last.u # before.nats[last.z].val
    /\ nats[last.z] = before.nats[last.z]

\* C10: every sign is 0 or 1, every Choice returned is 0 or 1, SetBytes and
\* SetUint64 leave the sign 0, and Resize leaves the sign as it was.
C10_SignIsChoice ==
    /\ \A i \in IntIds : sign[i] \in {0, 1}
    /\ last.res \in {0, 1}
    /\ last.op \in {"SetBytes", "SetUint64"} => sign[last.z] = 0
    /\ last.op = "Resize" => sign = before.sign

\* SetBytes was called on a negative Int, which is now positive.
C10_Witness ==
    /\ last.op = "SetBytes"
    /\ before.sign[last.z] = 1
    /\ before.nats[last.z].val # 0
    /\ sign[last.z] = 0

====
